---- MODULE Spec2Model ----
(***************************************************************************)
(* Model of hybrid_md/refit.py: the refit-function resolver `refit`, the   *)
(* specialised strategy `refit_turbo_si_c` and the generic invoker         *)
(* `refit_generic`, acting on a working directory (GAP.xml, its backups,   *)
(* train.xyz and the capture files) through an external gap_fit process.   *)
(***************************************************************************)
EXTENDS Integers, Sequences, FiniteSets, TLC

(* ------------------------------ bounds -------------------------------- *)
\* number of refit calls the driver makes in one behaviour
MaxCalls == 2
\* distinct readings the time source may return
MaxTime == 2

Times == 1..MaxTime
AllProcs == {1, 2}

(* ------------------------ optional values ----------------------------- *)
\* Python's None is the empty option; a present value v is <<v>>.
None == <<>>
Some(v) == <<v>>

(* ------------------------ strings with dots --------------------------- *)
\* A string is a sequence of tokens; the token "." is the dot character,
\* every other token is a run of characters holding no dot.
DOT == "."

RECURSIVE SplitFrom(_, _, _)
SplitFrom(s, i, cur) ==
    IF i > Len(s) THEN <<cur>>
    ELSE IF s[i] = DOT THEN <<cur>> \o SplitFrom(s, i + 1, <<>>)
    ELSE SplitFrom(s, i + 1, Append(cur, s[i]))

\* str.split("."): the pieces between dots; "" splits into [""]
Split(s) == SplitFrom(s, 1, <<>>)

RECURSIVE Join(_)
\* ".".join(parts)
Join(parts) ==
    IF Len(parts) = 0 THEN <<>>
    ELSE IF Len(parts) = 1 THEN parts[1]
    ELSE parts[1] \o <<DOT>> \o Join(Tail(parts))

\* the module path cut at the first dot instead of the last
ModuleNameFirstSegment(s) == Split(s)[1]

\* refit_function_import.split(".")[:-1] joined by "."
ModuleNameOf(s) == Join(SubSeq(Split(s), 1, Len(Split(s)) - 1))
\* refit_function_import.split(".")[-1]
FunctionNameOf(s) == Split(s)[Len(Split(s))]

(* ---------------------- importable modules ---------------------------- *)
\* What importlib.import_module can locate, and the attributes of each
\* module: callable functions and attributes that are not callable.
Attr(callable, fn) == [callable |-> callable, fn |-> fn]

ModHybridPkg == <<"hybrid_md">>
ModHybridRefit == <<"hybrid_md", DOT, "refit">>
ModUser == <<"my_fits">>

Registry ==
    [m \in {ModHybridPkg, ModHybridRefit, ModUser} |->
        IF m = ModHybridPkg THEN
            [a \in {<<"refit">>} |-> Attr(FALSE, "module")]
        ELSE IF m = ModHybridRefit THEN
            [a \in {<<"refit_generic">>, <<"refit_turbo_si_c">>, <<"np">>} |->
                IF a = <<"np">> THEN Attr(FALSE, "module")
                ELSE Attr(TRUE, a[1])]
        ELSE
            [a \in {<<"custom">>, <<"SETTINGS">>} |->
                IF a = <<"custom">> THEN Attr(TRUE, "custom")
                ELSE Attr(FALSE, "dict")]]

\* value returned by the user-supplied strategy my_fits.custom
CustomResult == Some("custom_result")

(* ----------------------------- resolver ------------------------------- *)
\* line 33 and line 57: the resolver calls fn with args
Dispatch(fn, args, imports) ==
    [kind |-> "call", error |-> "", fn |-> fn, args |-> args,
     imports |-> imports,
     invoked |-> <<[fn |-> fn, args |-> args]>>]

\* a resolver that swallows the error and falls back to the built-in
\* strategy
RaiseFallsBack(err, imports, invoked) ==
    Dispatch("refit_generic", <<"state", "None", "None">>, imports)

\* lines 42-54: the resolver raises err; `invoked` is what it had called
Raise(err, imports, invoked) ==
    [kind |-> "raise", error |-> err, fn |-> "", args |-> <<>>,
     imports |-> imports, invoked |-> invoked]

\* the specialised strategy taken as the default
DefaultStrategyTurbo == Dispatch("refit_turbo_si_c", <<"state">>, <<>>)

\* line 33: return refit_generic(state, None, None), with no import
DefaultStrategy == Dispatch("refit_generic", <<"state", "None", "None">>, <<>>)

\* refit(state), lines 32-57: what the resolver decides for a
\* refit_function_name (an option) in a build with or without -O
Resolve(name, is_optimized) ==
    IF name = None THEN DefaultStrategy
    ELSE
        LET module_name == ModuleNameOf(name[1])
            function_name == FunctionNameOf(name[1])
            imports == <<module_name>>
        IN  IF module_name = <<>> THEN
                \* importlib.import_module(""): ValueError, not caught
                Raise("ValueError", imports, <<>>)
            ELSE IF module_name \notin DOMAIN Registry THEN
                Raise("RuntimeError", imports, <<>>)
            ELSE IF function_name \notin DOMAIN Registry[module_name] THEN
                Raise("RuntimeError", imports, <<>>)
            ELSE IF ~Registry[module_name][function_name].callable THEN
                IF is_optimized
                THEN \* the assert is compiled away; the call itself fails
                     Raise("TypeError", imports,
                           <<[fn |-> Registry[module_name][function_name].fn,
                              args |-> <<"state">>]>>)
                ELSE Raise("AssertionError", imports, <<>>)
            ELSE Dispatch(Registry[module_name][function_name].fn,
                          <<"state">>, imports)

(* ------------------------------ frames -------------------------------- *)
\* A structure: total QM_energy E and number of atoms N
Frame(e, n) == [E |-> e, N |-> n]
XyzReads == {<<Frame(-2, 2)>>, <<Frame(-2, 2), Frame(-4, 2)>>}
PrevReads == {<<>>, <<Frame(-3, 1)>>}

\* exact rationals <<numerator, denominator>>, denominator > 0, reduced
Abs(x) == IF x < 0 THEN -x ELSE x
RECURSIVE Gcd(_, _)
Gcd(a, b) == IF b = 0 THEN a ELSE Gcd(b, a % b)
Rat(n, d) ==
    LET g == Gcd(Abs(n), Abs(d))
        s == IF d < 0 THEN -1 ELSE 1
    IN  <<(s * n) \div g, (s * d) \div g>>
RatAdd(x, y) == Rat(x[1] * y[2] + y[1] * x[2], x[2] * y[2])
RatSub(x, y) == Rat(x[1] * y[2] - y[1] * x[2], x[2] * y[2])
RatMul(x, y) == Rat(x[1] * y[1], x[2] * y[2])

RECURSIVE RatSum(_)
RatSum(xs) == IF Len(xs) = 0 THEN <<0, 1>> ELSE RatAdd(xs[1], RatSum(Tail(xs)))

\* [at.info["QM_energy"] / len(at) for at in frames_train]
PerAtom(frames) == [i \in 1..Len(frames) |-> Rat(frames[i].E, frames[i].N)]
Mean(xs) == RatMul(RatSum(xs), Rat(1, Len(xs)))
\* np.std(xs) ** 2: the population variance
Variance(xs) ==
    RatSub(Mean([i \in 1..Len(xs) |-> RatMul(xs[i], xs[i])]),
           RatMul(Mean(xs), Mean(xs)))
\* delta = np.std(...) / 4, held exactly as its square (np.std is a square
\* root, and squaring is one-to-one on the values a deviation takes)
DeltaSq(frames) == RatMul(Variance(PerAtom(frames)), Rat(1, 16))

\* the descriptor strings, by the strategy that built them and the delta
\* injected into every block
TurboDescriptor(frames) == [blocks |-> "distance_Nb : soap_turbo : soap_turbo",
                            delta |-> DeltaSq(frames)]
GenericDescriptor(frames) == [blocks |-> "distance_Nb : soap",
                              delta |-> DeltaSq(frames)]
DefaultSigma == "0.005 0.050 0.1 1.0"

(* ---------------------------- filesystem ------------------------------ *)
\* The working directory: a function from the names of the files that
\* exist to their contents.
gp_name == <<"GAP.xml">>
TrainName == <<"train.xyz">>
\* a backup name that leaves the timestamp out
BackupNameNoTime(t) == <<"save__", "__", "GAP.xml">>
BackupName(t) == <<"save__", t, "__", "GAP.xml">>
StdoutName(t) == <<"stdout_", "GAP.xml", "_at_", t, "__.txt">>
StderrName(t) == <<"stderr_", "GAP.xml", "_at_", t, "__.txt">>

isfile(dir, f) == f \in DOMAIN dir
\* open(f, "w").write(c) and ase.io.write: create or replace
WriteFile(dir, f, c) ==
    [n \in DOMAIN dir \cup {f} |-> IF n = f THEN c ELSE dir[n]]
\* shutil.move(src, dst) for an existing src: os.rename, which replaces dst
MoveFile(dir, src, dst) ==
    [n \in (DOMAIN dir \ {src}) \cup {dst} |-> IF n = dst THEN dir[src] ELSE dir[n]]

Model(id) == [kind |-> "model", id |-> id]
Text(stream, id) == [kind |-> stream, id |-> id]
Backups(dir) == {n \in DOMAIN dir : \E t \in Times : n = BackupName(t)}
Captures(dir) ==
    {n \in DOMAIN dir : \E t \in Times : n = StdoutName(t) \/ n = StderrName(t)}

(* ------------------------------ state --------------------------------- *)
VARIABLES
    fs,         \* the working directory
    threads,    \* the driver threads that call refit
    clock,      \* the last reading time() returned
    pc,         \* per thread: the statement it is at
    st,         \* per thread: state.refit_function_name of the current call
    loc,        \* per thread: locals of the strategy functions
    out,        \* per thread: how the last call ended, and its result
    hist,       \* per thread: what the current call has done so far
    calls,      \* refit calls started
    runs,       \* external fitting processes started
    found,      \* refit_generic invocations that found GAP.xml
    flags       \* history of the whole run: overlap, clock, races

vars == <<fs, threads, clock, pc, st, loc, out, hist, calls, runs, found, flags>>

NoLocals == [descriptor_strs |-> None, default_sigma |-> None,
             frames_train |-> <<>>, turbo_frames |-> <<>>,
             delta_frames |-> <<>>]
NoHist(dir, id) ==
    [id |-> id, fs0 |-> dir, invoked |-> <<>>, imports |-> <<>>,
     trace |-> <<>>, had_model |-> None, backup |-> None,
     fit_input |-> None, runs |-> 0, exit |-> None, fn_result |-> None]
NoOut == [status |-> "none", result |-> None]

EmptyDir == [n \in {} |-> Model(0)]
\* the directory the first call finds: with or without a fitted GAP.xml
InitDirs == {EmptyDir, [n \in {gp_name} |-> Model(0)]}

InitWith(ts) ==
    /\ fs \in InitDirs
    /\ threads = ts
    /\ clock = 1
    /\ pc = [p \in AllProcs |-> "idle"]
    /\ st = [p \in AllProcs |-> None]
    /\ loc = [p \in AllProcs |-> NoLocals]
    /\ out = [p \in AllProcs |-> NoOut]
    /\ hist = [p \in AllProcs |-> NoHist(EmptyDir, 0)]
    /\ calls = 0
    /\ runs = 0
    /\ found = 0
    /\ flags = [overlapped |-> FALSE, readings |-> {}, collision |-> FALSE,
                replaced |-> FALSE, stale_fit |-> FALSE]

Init == InitWith({1})
InitConc == InitWith({1, 2})

(* ------------------------------ actions ------------------------------- *)
\* time(): the readings a call may get, none earlier than the last one;
\* two reads may return the same value
time == {t \in Times : t >= clock}

Ended(p, status, result) ==
    /\ pc' = [pc EXCEPT ![p] = "idle"]
    /\ out' = [out EXCEPT ![p] = [status |-> status, result |-> result]]

Step(h, name) == [h EXCEPT !.trace = Append(@, name)]

\* The driver calls refit(state) with state.refit_function_name drawn
\* from `names`.
CallWith(p, names) ==
    /\ p \in threads
    /\ pc[p] = "idle"
    /\ calls < MaxCalls
    /\ \E n \in names : st' = [st EXCEPT ![p] = n]
    /\ pc' = [pc EXCEPT ![p] = "refit"]
    /\ loc' = [loc EXCEPT ![p] = NoLocals]
    /\ out' = [out EXCEPT ![p] = NoOut]
    /\ hist' = [hist EXCEPT ![p] = NoHist(fs, calls + 1)]
    /\ calls' = calls + 1
    /\ flags' = [flags EXCEPT !.overlapped =
                    @ \/ \E q \in AllProcs \ {p} : pc[q] # "idle"]
    /\ UNCHANGED <<fs, threads, clock, runs, found>>

\* "" and names without a dot, existing and missing modules and functions,
\* attributes that are not callable
NameInputs ==
    { None,
      Some(<<>>),
      Some(<<"refit_generic">>),
      Some(<<"hybrid_md", DOT, "refit", DOT, "refit_generic">>),
      Some(<<"hybrid_md", DOT, "refit", DOT, "refit_turbo_si_c">>),
      Some(<<"my_fits", DOT, "custom">>),
      Some(<<"no_such", DOT, "custom">>),
      Some(<<"hybrid_md", DOT, "nothing", DOT, "refit_generic">>),
      Some(<<"my_fits", DOT, "missing">>),
      Some(<<"hybrid_md", DOT, "refit", DOT, "np">>),
      Some(<<"hybrid_md", DOT, "refit">>),
      Some(<<"my_fits", DOT, "SETTINGS">>) }

call(p) == CallWith(p, NameInputs)
\* a driver thread that makes one call and leaves refit_function_name unset
call_default(p) == hist[p].id = 0 /\ CallWith(p, {None})

\* refit(state), lines 32-57; the interpreter may run with -O, which
\* removes the assert of line 50
refit(p) ==
    /\ pc[p] = "refit"
    /\ \E is_optimized \in BOOLEAN :
       LET r == Resolve(st[p], is_optimized)
           h == [hist[p] EXCEPT !.imports = r.imports, !.invoked = r.invoked]
       IN  IF r.kind = "raise" THEN
               /\ Ended(p, r.error, None)
               /\ hist' = [hist EXCEPT ![p] = h]
               /\ loc' = loc
           ELSE IF r.fn = "custom" THEN
               \* the user's strategy runs and returns its value
               /\ Ended(p, "returned", CustomResult)
               /\ hist' = [hist EXCEPT ![p] = [h EXCEPT !.fn_result = CustomResult]]
               /\ loc' = loc
           ELSE
               /\ pc' = [pc EXCEPT ![p] =
                           IF r.fn = "refit_turbo_si_c" THEN "turbo" ELSE "generic"]
               /\ hist' = [hist EXCEPT ![p] = h]
               /\ UNCHANGED <<loc, out>>
    /\ UNCHANGED <<fs, threads, clock, st, calls, runs, found, flags>>

\* refit_turbo_si_c(state), lines 60-92: reads the training set, computes
\* delta from it and hands the descriptor strings to refit_generic
refit_turbo_si_c(p) ==
    /\ pc[p] = "turbo"
    /\ \E xyz \in XyzReads, prev \in PrevReads :
         LET frames_train == xyz \o prev
         IN  loc' = [loc EXCEPT ![p] =
                        [@ EXCEPT !.turbo_frames = frames_train,
                                  !.delta_frames = frames_train,
                                  !.descriptor_strs = Some(TurboDescriptor(frames_train)),
                                  !.default_sigma = Some(DefaultSigma)]]
    /\ pc' = [pc EXCEPT ![p] = "generic"]
    /\ UNCHANGED <<fs, threads, clock, st, out, hist, calls, runs, found, flags>>

\* refit_generic, lines 113-133: default sigma, the training set, and the
\* descriptor strings when none were passed
generic_read(p) ==
    /\ pc[p] = "generic"
    /\ \E xyz \in XyzReads, prev \in PrevReads :
         LET frames_train == xyz \o prev
         IN  loc' = [loc EXCEPT ![p] =
                        [@ EXCEPT !.frames_train = frames_train,
                                  !.delta_frames =
                                      IF loc[p].descriptor_strs = None
                                      THEN frames_train ELSE @,
                                  !.default_sigma =
                                      IF @ = None THEN Some(DefaultSigma) ELSE @,
                                  !.descriptor_strs =
                                      IF @ = None
                                      THEN Some(GenericDescriptor(frames_train))
                                      ELSE @]]
    /\ pc' = [pc EXCEPT ![p] = "isfile"]
    /\ UNCHANGED <<fs, threads, clock, st, out, hist, calls, runs, found, flags>>

\* the test of line 136 inverted
AfterIsfileInverted(exists) == IF exists THEN "write_train" ELSE "move"

\* lines 136-140: the backup is made only when the model file exists
AfterIsfile(exists) == IF exists THEN "move" ELSE "write_train"

\* line 136: if os.path.isfile(gp_name)
generic_isfile(p) ==
    /\ pc[p] = "isfile"
    /\ pc' = [pc EXCEPT ![p] = AfterIsfile(isfile(fs, gp_name))]
    /\ IF isfile(fs, gp_name)
       THEN /\ hist' = [hist EXCEPT ![p] = [@ EXCEPT !.had_model = Some(fs[gp_name])]]
            /\ found' = found + 1
       ELSE UNCHANGED <<hist, found>>
    /\ UNCHANGED <<fs, threads, clock, st, loc, out, calls, runs, flags>>

\* line 137: shutil.move(gp_name, f"save__{time()}__{gp_name}")
generic_move(p) ==
    /\ pc[p] = "move"
    /\ \E t \in time :
         LET dst == BackupName(t)
         IN  /\ clock' = t
             /\ flags' = [flags EXCEPT
                            !.readings = @ \cup {t},
                            !.collision = @ \/ t \in flags.readings,
                            !.replaced = @ \/ (isfile(fs, gp_name) /\ isfile(fs, dst))]
             /\ IF isfile(fs, gp_name)
                THEN /\ fs' = MoveFile(fs, gp_name, dst)
                     /\ hist' = [hist EXCEPT ![p] =
                                    [Step(@, "backup") EXCEPT !.backup = Some(dst)]]
                     /\ pc' = [pc EXCEPT ![p] = "write_train"]
                     /\ out' = out
                ELSE \* another invocation moved it after the isfile test
                     /\ Ended(p, "FileNotFoundError", None)
                     /\ UNCHANGED <<fs, hist>>
    /\ UNCHANGED <<threads, st, loc, calls, runs, found>>

\* line 140: ase.io.write("train.xyz", frames_train)
generic_write_train(p) ==
    /\ pc[p] = "write_train"
    /\ fs' = WriteFile(fs, TrainName, loc[p].frames_train)
    /\ hist' = [hist EXCEPT ![p] = Step(@, "train")]
    /\ pc' = [pc EXCEPT ![p] = "run"]
    /\ UNCHANGED <<threads, clock, st, loc, out, calls, runs, found, flags>>

\* lines 143-155: the command line is assembled and gap_fit starts; it
\* reads at_file=train.xyz
generic_run(p) ==
    /\ pc[p] = "run"
    /\ hist' = [hist EXCEPT ![p] =
                   [Step(@, "run") EXCEPT !.fit_input = Some(fs[TrainName]),
                                          !.runs = @ + 1]]
    /\ runs' = runs + 1
    /\ flags' = [flags EXCEPT !.stale_fit =
                    @ \/ fs[TrainName] # loc[p].frames_train]
    /\ pc' = [pc EXCEPT ![p] = "fitting"]
    /\ UNCHANGED <<fs, threads, clock, st, loc, out, calls, found>>

\* subprocess.run without check=True
ExitOutcomeUnchecked(code) == "stdout"

\* line 154: check=True turns a non-zero exit status into an exception
ExitOutcome(code) == IF code = 0 THEN "stdout" ELSE "CalledProcessError"

\* lines 153-155: gap_fit exits. gap_fit writes gp_file when it succeeds.
generic_exit(p) ==
    /\ pc[p] = "fitting"
    /\ \E code \in {0, 1} :
         /\ hist' = [hist EXCEPT ![p] = [@ EXCEPT !.exit = Some(code)]]
         /\ fs' = IF code = 0 THEN WriteFile(fs, gp_name, Model(hist[p].id)) ELSE fs
         /\ IF ExitOutcome(code) = "stdout"
            THEN /\ pc' = [pc EXCEPT ![p] = "stdout"]
                 /\ out' = out
            ELSE Ended(p, ExitOutcome(code), None)
    /\ UNCHANGED <<threads, clock, st, loc, calls, runs, found, flags>>

\* lines 158-159: the stdout capture file
generic_stdout(p) ==
    /\ pc[p] = "stdout"
    /\ \E t \in time :
         /\ clock' = t
         /\ fs' = WriteFile(fs, StdoutName(t), Text("stdout", hist[p].id))
    /\ hist' = [hist EXCEPT ![p] = Step(@, "stdout")]
    /\ pc' = [pc EXCEPT ![p] = "stderr"]
    /\ UNCHANGED <<threads, st, loc, out, calls, runs, found, flags>>

\* lines 160-161: the stderr capture file; refit_generic returns None
generic_stderr(p) ==
    /\ pc[p] = "stderr"
    /\ \E t \in time :
         /\ clock' = t
         /\ fs' = WriteFile(fs, StderrName(t), Text("stderr", hist[p].id))
    /\ hist' = [hist EXCEPT ![p] = Step(@, "stderr")]
    /\ Ended(p, "returned", None)
    /\ UNCHANGED <<threads, st, loc, calls, runs, found, flags>>

Generic(p) ==
    \/ generic_read(p)
    \/ generic_isfile(p)
    \/ generic_move(p)
    \/ generic_write_train(p)
    \/ generic_run(p)
    \/ generic_exit(p)
    \/ generic_stdout(p)
    \/ generic_stderr(p)

\* one driver thread, any strategy name
Next == \E p \in AllProcs : call(p) \/ refit(p) \/ refit_turbo_si_c(p) \/ Generic(p)
Spec == Init /\ [][Next]_vars

\* two driver threads with no lock between them, the built-in strategy
NextConc == \E p \in AllProcs : call_default(p) \/ refit(p) \/ Generic(p)
SpecConc == InitConc /\ [][NextConc]_vars

(* ------------------------------ claims -------------------------------- *)
\* the resolver of thread p's current call has run
Resolved(p) == hist[p].id > 0 /\ pc[p] # "refit"
\* thread p's current call is over
Finished(p) == hist[p].id > 0 /\ pc[p] = "idle"
\* the call of thread p has written no file and started no process
Untouched(p) == fs = hist[p].fs0 /\ hist[p].trace = <<>> /\ hist[p].runs = 0

RECURSIVE IsPrefix(_, _)
IsPrefix(a, b) ==
    \/ Len(a) = 0
    \/ Len(b) > 0 /\ a[1] = b[1] /\ IsPrefix(Tail(a), Tail(b))

MissingModuleNames ==
    { Some(<<"no_such", DOT, "custom">>),
      Some(<<"hybrid_md", DOT, "nothing", DOT, "refit_generic">>) }
MissingFunctionNames == { Some(<<"my_fits", DOT, "missing">>) }
NotCallableNames ==
    { Some(<<"hybrid_md", DOT, "refit", DOT, "np">>),
      Some(<<"hybrid_md", DOT, "refit">>),
      Some(<<"my_fits", DOT, "SETTINGS">>) }
GenericName == Some(<<"hybrid_md", DOT, "refit", DOT, "refit_generic">>)
TurboName == Some(<<"hybrid_md", DOT, "refit", DOT, "refit_turbo_si_c">>)
CustomName == Some(<<"my_fits", DOT, "custom">>)
ValidNames == {GenericName, TurboName, CustomName}
ExpectedFunction(n) ==
    IF n = GenericName THEN "refit_generic"
    ELSE IF n = TurboName THEN "refit_turbo_si_c" ELSE "custom"
ExpectedModule(n) == IF n = CustomName THEN ModUser ELSE ModHybridRefit

\* C1: a refit call whose refit_function_name names a module that cannot
\* be located, or a function missing from an existing module, ends with the
\* configuration error (RuntimeError) having invoked nothing, written no
\* file and started no process: the directory is as the call found it.
C1_ConfigErrorBeforeSideEffects ==
    \A p \in AllProcs :
        (Resolved(p) /\ st[p] \in MissingModuleNames \cup MissingFunctionNames)
        => /\ pc[p] = "idle"
           /\ out[p].status = "RuntimeError"
           /\ hist[p].invoked = <<>>
           /\ Untouched(p)

\* a missing function is refused in a directory that earlier fits filled
C1_Witness ==
    \E p \in AllProcs :
        /\ Resolved(p)
        /\ st[p] \in MissingFunctionNames
        /\ out[p].status = "RuntimeError"
        /\ Captures(fs) # {}
        /\ isfile(fs, gp_name)

\* C2: when gap_fit exits non-zero the call ends at once with
\* CalledProcessError, the process was run exactly once, no capture file is
\* written, and nothing is rolled back: GAP.xml stays moved to its backup
\* name and train.xyz holds the new training set.
C2_FailedFitKeepsSideEffects ==
    \A p \in AllProcs :
        (hist[p].exit # None /\ hist[p].exit[1] # 0)
        => /\ pc[p] = "idle"
           /\ out[p].status = "CalledProcessError"
           /\ hist[p].runs = 1
           /\ Captures(fs) = Captures(hist[p].fs0)
           /\ \A n \in Captures(fs) : fs[n] = hist[p].fs0[n]
           /\ isfile(fs, TrainName) /\ fs[TrainName] = loc[p].frames_train
           /\ hist[p].had_model # None
                => /\ hist[p].backup # None
                   /\ isfile(fs, hist[p].backup[1])
                   /\ fs[hist[p].backup[1]] = hist[p].had_model[1]
                   /\ ~isfile(fs, gp_name)

\* a fit fails after the previous model was backed up
C2_Witness ==
    \E p \in AllProcs :
        /\ out[p].status = "CalledProcessError"
        /\ hist[p].had_model # None
        /\ Captures(fs) # {}

\* C3: the backup step never replaces an existing backup: when no call is
\* in progress there are as many backup files as invocations that found a
\* file under GAP.xml.
C3_BackupsNeverOverwritten ==
    (\A p \in AllProcs : pc[p] = "idle") => Cardinality(Backups(fs)) = found

\* C3 holds of the runs in which no two backup names used the same clock
\* reading.
C3_DistinctReadingsKeepBackups ==
    ((\A p \in AllProcs : pc[p] = "idle") /\ ~flags.collision)
    => Cardinality(Backups(fs)) = found

\* C4: an invocation that found a model under GAP.xml leaves exactly one
\* new backup file, holding that model; GAP.xml is the new model after a
\* successful fit and absent after a failed one; once the fit has started
\* GAP.xml never holds the old model.
C4_OneNewBackupPerInvocation ==
    \A p \in AllProcs :
        /\ (Finished(p) /\ hist[p].had_model # None)
            => /\ \E b \in Backups(fs) :
                    /\ Backups(fs) \ Backups(hist[p].fs0) = {b}
                    /\ fs[b] = hist[p].had_model[1]
               /\ out[p].status = "returned"
                    => isfile(fs, gp_name) /\ fs[gp_name] = Model(hist[p].id)
               /\ out[p].status = "CalledProcessError" => ~isfile(fs, gp_name)
        /\ (hist[p].fit_input # None /\ hist[p].had_model # None /\ isfile(fs, gp_name))
            => fs[gp_name] # hist[p].had_model[1]

\* C4 with the backup found under the derived name, whether or not the
\* name is new
C4_BackupHoldsOldModel ==
    \A p \in AllProcs :
        /\ (Finished(p) /\ hist[p].had_model # None)
            => /\ hist[p].backup # None
               /\ isfile(fs, hist[p].backup[1])
               /\ fs[hist[p].backup[1]] = hist[p].had_model[1]
               /\ out[p].status = "returned"
                    => isfile(fs, gp_name) /\ fs[gp_name] = Model(hist[p].id)
               /\ out[p].status = "CalledProcessError" => ~isfile(fs, gp_name)
        /\ (hist[p].fit_input # None /\ hist[p].had_model # None /\ isfile(fs, gp_name))
            => fs[gp_name] # hist[p].had_model[1]

StepOrder(had_model) ==
    (IF had_model THEN <<"backup">> ELSE <<>>) \o <<"train", "run", "stdout", "stderr">>

\* C5: the steps of an invocation happen in the order backup (only when a
\* model was found), train.xyz, the one run of gap_fit, the stdout capture,
\* the stderr capture; captures follow only a zero exit, a failed run is the
\* last step, and a call that returns has made every step.
C5_FixedStepOrder ==
    \A p \in AllProcs :
        /\ IsPrefix(hist[p].trace, StepOrder(hist[p].had_model # None))
        /\ hist[p].runs <= 1
        /\ (\E i \in 1..Len(hist[p].trace) : hist[p].trace[i] = "stdout")
            => hist[p].exit = Some(0)
        /\ (hist[p].exit # None /\ hist[p].exit[1] # 0)
            => /\ pc[p] = "idle"
               /\ hist[p].trace[Len(hist[p].trace)] = "run"
        /\ (Finished(p) /\ out[p].status = "returned" /\ hist[p].invoked[1].fn # "custom")
            => hist[p].trace = StepOrder(hist[p].had_model # None)

\* an invocation that backed up a model has written both captures
C5_Witness ==
    \E p \in AllProcs :
        hist[p].trace = <<"backup", "train", "run", "stdout", "stderr">>

\* C6: for a name "<module path>.<function>" of an existing callable, refit
\* imports the module path before the last dot, invokes that function once
\* with state as its only argument, does no fitting step of its own, and
\* returns what the function returns; every call is resolved afresh.
C6_DispatchToNamedFunction ==
    \A p \in AllProcs :
        (Resolved(p) /\ st[p] \in ValidNames)
        => /\ hist[p].imports = <<ExpectedModule(st[p])>>
           /\ hist[p].invoked =
                <<[fn |-> ExpectedFunction(st[p]), args |-> <<"state">>]>>
           /\ pc[p] \in {"generic", "turbo"} => Untouched(p)
           /\ st[p] = CustomName
                => /\ Finished(p) /\ Untouched(p)
                   /\ out[p] = [status |-> "returned", result |-> hist[p].fn_result]
                   /\ hist[p].fn_result = CustomResult
           /\ (Finished(p) /\ out[p].status = "returned" /\ st[p] # CustomName)
                => out[p].result = None

\* the second call dispatches to the user's function after a first call
\* that ran a fitting strategy
C6_Witness ==
    \E p \in AllProcs :
        /\ calls = 2
        /\ Finished(p)
        /\ st[p] = CustomName
        /\ out[p].result = CustomResult
        /\ Captures(fs) # {}

\* C7 as stated: both None and the empty string select refit_generic with
\* descriptor and sigma unset, with no import and no error raised.
C7_AbsentOrEmptySelectsGeneric ==
    \A p \in AllProcs :
        (Resolved(p) /\ st[p] \in {None, Some(<<>>)})
        => /\ hist[p].invoked =
                <<[fn |-> "refit_generic", args |-> <<"state", "None", "None">>]>>
           /\ hist[p].imports = <<>>
           /\ out[p].status \notin {"ValueError", "RuntimeError", "AssertionError", "TypeError"}

\* C7 amended: None selects refit_generic with descriptor and sigma unset,
\* with no import and no error from the resolver; the empty string is not
\* taken as absent: the import of the empty module name is attempted and
\* the call ends with ValueError, nothing invoked and nothing written.
C7_NoneSelectsGeneric ==
    \A p \in AllProcs :
        /\ (Resolved(p) /\ st[p] = None)
            => /\ hist[p].invoked =
                    <<[fn |-> "refit_generic", args |-> <<"state", "None", "None">>]>>
               /\ hist[p].imports = <<>>
               /\ out[p].status \notin {"ValueError", "RuntimeError", "AssertionError", "TypeError"}
               /\ pc[p] = "generic" => Untouched(p)
               /\ pc[p] \notin {"generic", "isfile", "turbo"}
                    => loc[p].descriptor_strs = Some(GenericDescriptor(loc[p].frames_train))
        /\ (Resolved(p) /\ st[p] = Some(<<>>))
            => /\ out[p].status = "ValueError"
               /\ hist[p].imports = <<<<>>>>
               /\ hist[p].invoked = <<>>
               /\ Untouched(p)

\* a call with refit_function_name None has run the generic strategy
C7_Witness ==
    \E p \in AllProcs :
        /\ Finished(p)
        /\ st[p] = None
        /\ out[p].status = "returned"
        /\ hist[p].trace # <<>>

\* C8: an attribute that exists but is not callable is refused with the
\* configuration error raised for a missing module or function, without
\* being invoked and before any side effect.
C8_NotCallableIsConfigError ==
    \A p \in AllProcs :
        (Resolved(p) /\ st[p] \in NotCallableNames)
        => /\ out[p].status = "RuntimeError"
           /\ hist[p].invoked = <<>>
           /\ Untouched(p)

\* C9: two refit_generic invocations that do not overlap and whose backup
\* names come from different clock readings reach neither bad state: no
\* fit reads a train.xyz holding the other invocation's training set, and
\* no backup replaces another.
C9_SerializedIsSafe ==
    (~flags.overlapped /\ ~flags.collision)
    => (~flags.stale_fit /\ ~flags.replaced)

\* overlapping invocations: a fit has read the other one's training set
C9_Witness == flags.overlapped /\ flags.stale_fit

\* overlapping invocations: one backup has replaced the other
C9_BackupRaceReached ==
    /\ flags.overlapped
    /\ flags.replaced
    /\ \A p \in AllProcs : hist[p].backup # None

\* C10: the training set the injected delta was computed from is the one
\* gap_fit reads from train.xyz.
C10_DeltaFromFittedSet ==
    \A p \in AllProcs :
        hist[p].fit_input # None
        => /\ loc[p].delta_frames = hist[p].fit_input[1]
           /\ loc[p].descriptor_strs[1].delta = DeltaSq(hist[p].fit_input[1])

\* C10 holds of the calls that do not go through refit_turbo_si_c
C10_GenericDeltaFromFittedSet ==
    \A p \in AllProcs :
        (hist[p].fit_input # None /\ st[p] # TurboName)
        => /\ loc[p].delta_frames = hist[p].fit_input[1]
           /\ loc[p].descriptor_strs[1].delta = DeltaSq(hist[p].fit_input[1])
====
